---------------------------- MODULE Spec2Model ----------------------------
(***************************************************************************)
(* Model of app/params.py: schema validation of JSON-like documents with   *)
(* error-path reporting (_parse_json) and the read-only typed views        *)
(* Properties, Messages, Data, DataGroup and DataItem built on top of it.  *)
(*                                                                         *)
(* A JSON node is a record [t, n, s, o, a]: t is the node's type, n the    *)
(* value of an integer, s the value of a string, o the mapping of an       *)
(* object (a function from keys to nodes) and a the sequence of an array.  *)
(* Documents hold integers, strings, null, dicts and lists; dict keys are  *)
(* strings, as a JSON parser produces them.                                *)
(***************************************************************************)
EXTENDS Integers, Sequences, FiniteSets, Bags, TLC

VARIABLES
    pc,       \* "start" | "constructed" | "failed": the caller's position
    kind,     \* which View class the caller constructed ("none" before)
    given,    \* history: the document as it was when the constructor was called
    arg,      \* the caller's document object after the call
    view,     \* the document held by the View (self.__props_data / __msgs_data / __data)
    raised,   \* the PropertiesError raised by the constructor, with its cause
    result,   \* outcome of the last accessor call on the View
    iters     \* the bag of live iterators (map objects) handed out by __iter__

vars == <<pc, kind, given, arg, view, raised, result, iters>>

----------------------------------------------------------------------------
(* Bounds of the model. *)

\* integer leaves of the enumerated Properties documents range over 0..MaxInt
MaxInt == 2
\* a Data document holds at most MaxTotalItems items over all of its groups
MaxTotalItems == 3
\* at most MaxIters iterators are alive at once
MaxIters == 2

----------------------------------------------------------------------------
(* JSON nodes. *)

NoKeys == [k \in {} |-> 0]

JNull == [t |-> "null", n |-> 0, s |-> "", o |-> NoKeys, a |-> <<>>]
JInt(i) == [t |-> "integer", n |-> i, s |-> "", o |-> NoKeys, a |-> <<>>]
JStr(x) == [t |-> "string", n |-> 0, s |-> x, o |-> NoKeys, a |-> <<>>]
JObj(f) == [t |-> "object", n |-> 0, s |-> "", o |-> f, a |-> <<>>]
JArr(q) == [t |-> "array", n |-> 0, s |-> "", o |-> NoKeys, a |-> q]

\* "no document": the value of a reference that holds nothing
NoDoc == [t |-> "none", n |-> 0, s |-> "", o |-> NoKeys, a |-> <<>>]

\* the keys of a dict (empty for every node that is no dict)
Keys(node) == IF node.t = "object" /\ node.o # NoKeys THEN DOMAIN node.o ELSE {}

----------------------------------------------------------------------------
(* The three schemas, literally. *)

\* a variant of props_schema whose `rows` object is left open
\* (no additionalProperties), to show that C2 rests on the schema
props_schema_open_rows ==
    [type |-> "object",
     properties |->
        [rows |->
            [type |-> "object",
             properties |->
                [height              |-> [type |-> "integer", minimum |-> 1],
                 spacing             |-> [type |-> "integer", minimum |-> 1],
                 critical_value_size |-> [type |-> "integer", minimum |-> 1]],
             required |-> <<"height", "spacing">>],
         font |->
            [type |-> "object",
             properties |-> [size |-> [type |-> "integer", minimum |-> 1]],
             required |-> <<"size">>,
             additionalProperties |-> FALSE],
         mode |-> [type |-> "string", enum |-> <<"columns", "rows">>]],
     required |-> <<"rows", "font", "mode">>,
     additionalProperties |-> FALSE]

props_schema ==
    [type |-> "object",
     properties |->
        [rows |->
            [type |-> "object",
             properties |->
                [height              |-> [type |-> "integer", minimum |-> 1],
                 spacing             |-> [type |-> "integer", minimum |-> 1],
                 critical_value_size |-> [type |-> "integer", minimum |-> 1]],
             required |-> <<"height", "spacing">>,
             additionalProperties |-> FALSE],
         font |->
            [type |-> "object",
             properties |-> [size |-> [type |-> "integer", minimum |-> 1]],
             required |-> <<"size">>,
             additionalProperties |-> FALSE],
         mode |-> [type |-> "string", enum |-> <<"columns", "rows">>]],
     required |-> <<"rows", "font", "mode">>,
     additionalProperties |-> FALSE]

\* a variant of msgs_schema that does not type the caption,
\* to show that C9 rests on the schema
msgs_schema_untyped ==
    [type |-> "object",
     properties |-> [main_window_caption |-> [minLength |-> 0]],
     required |-> <<"main_window_caption">>,
     additionalProperties |-> FALSE]

msgs_schema ==
    [type |-> "object",
     properties |-> [main_window_caption |-> [type |-> "string"]],
     required |-> <<"main_window_caption">>,
     additionalProperties |-> FALSE]

\* a variant of data_schema whose groups may be empty (no inner minItems),
\* to show that C3 rests on the schema
data_schema_empty_groups ==
    [type |-> "array",
     items |->
        [type |-> "object",
         properties |->
            [name |-> [type |-> "string"],
             data |->
                [type |-> "array",
                 items |->
                    [type |-> "object",
                     properties |-> [name  |-> [type |-> "string"],
                                     value |-> [type |-> "string"]],
                     required |-> <<"name", "value">>,
                     additionalProperties |-> FALSE]]],
         required |-> <<"name", "data">>,
         additionalProperties |-> FALSE],
     minItems |-> 1]

data_schema ==
    [type |-> "array",
     items |->
        [type |-> "object",
         properties |->
            [name |-> [type |-> "string"],
             data |->
                [type |-> "array",
                 items |->
                    [type |-> "object",
                     properties |-> [name  |-> [type |-> "string"],
                                     value |-> [type |-> "string"]],
                     required |-> <<"name", "value">>,
                     additionalProperties |-> FALSE],
                 minItems |-> 1]],
         required |-> <<"name", "data">>,
         additionalProperties |-> FALSE],
     minItems |-> 1]

Kinds == {"Properties", "Messages", "Data"}

SchemaOf(k) ==
    CASE k = "Properties" -> props_schema
      [] k = "Messages"   -> msgs_schema
      [] k = "Data"       -> data_schema

----------------------------------------------------------------------------
(* jsonschema.validate(data, schema): the keywords the three schemas use.  *)
(* A path step is [str, s, n]: a dict key (str = TRUE, the key s) or a     *)
(* list index (str = FALSE, the index n).                                  *)

KeyStep(k) == [str |-> TRUE, s |-> k, n |-> 0]
IdxStep(i) == [str |-> FALSE, s |-> "", n |-> i]

\* repr() of an instance as the messages show it (containers abbreviated)
Repr(node) ==
    CASE node.t = "integer" -> ToString(node.n)
      [] node.t = "string"  -> "'" \o node.s \o "'"
      [] node.t = "object"  -> "{...}"
      [] node.t = "array"   -> IF node.a = <<>> THEN "[]" ELSE "[...]"
      [] OTHER              -> "None"

ValidationError(validator, message, path) ==
    [validator |-> validator, message |-> message, path |-> path]

is_type(instance, type) == instance.t = type

Range(q) == {q[i] : i \in DOMAIN q}

RECURSIVE iter_errors(_, _, _)
iter_errors(instance, schema, path) ==
    LET kw == DOMAIN schema
        typeE ==
            IF "type" \in kw /\ ~is_type(instance, schema.type)
            THEN {ValidationError("type",
                     Repr(instance) \o " is not of type '" \o schema.type \o "'", path)}
            ELSE {}
        propertiesE ==
            IF "properties" \in kw /\ instance.t = "object"
            THEN UNION {iter_errors(instance.o[p], schema.properties[p],
                                    Append(path, KeyStep(p))) :
                        p \in {q \in DOMAIN schema.properties : q \in Keys(instance)}}
            ELSE {}
        requiredE ==
            IF "required" \in kw /\ instance.t = "object"
            THEN {ValidationError("required", "'" \o p \o "' is a required property", path) :
                        p \in {q \in Range(schema.required) : q \notin Keys(instance)}}
            ELSE {}
        extras ==
            {k \in Keys(instance) :
                ~("properties" \in kw /\ k \in DOMAIN schema.properties)}
        additionalE ==
            IF "additionalProperties" \in kw /\ instance.t = "object"
               /\ schema.additionalProperties = FALSE /\ extras # {}
            THEN {ValidationError("additionalProperties",
                     "Additional properties are not allowed", path)}
            ELSE {}
        minimumE ==
            IF "minimum" \in kw /\ instance.t = "integer" /\ instance.n < schema.minimum
            THEN {ValidationError("minimum",
                     ToString(instance.n) \o " is less than the minimum of "
                        \o ToString(schema.minimum), path)}
            ELSE {}
        enumE ==
            IF "enum" \in kw
               /\ ~(instance.t = "string" /\ instance.s \in Range(schema.enum))
            THEN {ValidationError("enum", Repr(instance) \o " is not one of the enum", path)}
            ELSE {}
        itemsE ==
            IF "items" \in kw /\ instance.t = "array"
            THEN UNION {iter_errors(instance.a[i], schema.items,
                                    Append(path, IdxStep(i - 1))) :
                        i \in 1..Len(instance.a)}
            ELSE {}
        minItemsE ==
            IF "minItems" \in kw /\ instance.t = "array"
               /\ Len(instance.a) < schema.minItems
            THEN {ValidationError("minItems", Repr(instance) \o " is too short", path)}
            ELSE {}
    IN  typeE \cup propertiesE \cup requiredE \cup additionalE
          \cup minimumE \cup enumE \cup itemsE \cup minItemsE

\* validate() raises best_match(errors): an error whose path is shortest.
\* Which of several equally short ones depends on the library's version, so
\* every one of them is a possible outcome.
best_match(errors) ==
    {e \in errors : \A f \in errors : Len(e.path) <= Len(f.path)}

----------------------------------------------------------------------------
(* _parse_json *)

\* a variant of path_strs that renders a key without its quotes,
\* to show that C1 rests on the rendering
path_strs_unquoted(elem) ==
    IF elem.str THEN elem.s ELSE ToString(elem.n)

\* lambda elem: f'"{elem}"' if isinstance(elem, str) else str(elem)
path_strs(elem) ==
    IF elem.str THEN "\"" \o elem.s \o "\"" ELSE ToString(elem.n)

\* "][".join(strs)
RECURSIVE join(_, _)
join(sep, strs) ==
    IF strs = <<>> THEN ""
    ELSE IF Len(strs) = 1 THEN strs[1]
    ELSE strs[1] \o sep \o join(sep, Tail(strs))

\* path = f'[{"][".join(path_strs)}]'
render_path(path) ==
    "[" \o join("][", [i \in 1..Len(path) |-> path_strs(path[i])]) \o "]"

\* PropertiesError(f'{message} (path: {path})') from error
PropertiesError(error) ==
    [text      |-> error.message \o " (path: " \o render_path(error.path) \o ")",
     validator |-> error.validator,
     message   |-> error.message,
     path      |-> error.path]

NoError == [text |-> "", validator |-> "", message |-> "", path |-> <<>>]

\* a variant of parse_json_return that fills in the optional key with a
\* default, to show that C6 rests on the document being returned as it is
parse_json_return_defaulted(data) ==
    IF "rows" \in Keys(data) /\ "critical_value_size" \notin Keys(data.o["rows"])
    THEN JObj([data.o EXCEPT !["rows"] =
            JObj([k \in Keys(@) \cup {"critical_value_size"} |->
                    IF k = "critical_value_size" THEN JInt(1) ELSE @.o[k]])])
    ELSE data

\* what _parse_json returns when validation passed
parse_json_return(data) == data

\* which errors let _parse_json take the except branch
parse_json_errors(data, schema) == iter_errors(data, schema, <<>>)

\* what jsonschema.validate leaves in the caller's object: it only reads it
parse_json_arg(data) == data

----------------------------------------------------------------------------
(* Subscripting as Python does it.  An outcome is [status, val]: status is *)
(* "ok" with the value, or the name of the exception raised.               *)

Ok(node) == [status |-> "ok", val |-> node]
Raise(exc) == [status |-> exc, val |-> NoDoc]

\* d[key] on a dict
Sub(r, key) ==
    IF r.status # "ok" THEN r
    ELSE IF r.val.t # "object" THEN Raise("TypeError")
    ELSE IF key \in Keys(r.val) THEN Ok(r.val.o[key])
    ELSE Raise("KeyError")

\* l[index] on a list: negative indexes count from the end
Idx(r, index) ==
    IF r.status # "ok" THEN r
    ELSE IF r.val.t # "array" THEN Raise("TypeError")
    ELSE IF 0 <= index /\ index < Len(r.val.a) THEN Ok(r.val.a[index + 1])
    ELSE IF -Len(r.val.a) <= index /\ index < 0
         THEN Ok(r.val.a[Len(r.val.a) + index + 1])
    ELSE Raise("IndexError")

----------------------------------------------------------------------------
(* Properties and Messages accessors (on the constructed View). *)

row_height == Sub(Sub(Ok(view), "rows"), "height")
\* a variant of rows_spacing that reads the neighbouring key,
\* to show that C7 rests on the accessors
rows_spacing_swapped == Sub(Sub(Ok(view), "rows"), "height")

rows_spacing == Sub(Sub(Ok(view), "rows"), "spacing")
critical_value_size == Sub(Sub(Ok(view), "rows"), "critical_value_size")
font_size == Sub(Sub(Ok(view), "font"), "size")
mode == Sub(Ok(view), "mode")

Messages_getitem(key) == Sub(Ok(view), key)
main_window_caption == Messages_getitem("main_window_caption")

----------------------------------------------------------------------------
(* DataItem, DataGroup, Data.  A wrapper is modelled by the fragment it    *)
(* holds in self.__data.                                                   *)

DataItem_init(data) == data
DataItem_name(self) == Sub(Ok(self), "name")
DataItem_value(self) == Sub(Ok(self), "value")

DataGroup_init(data) == data
DataGroup_name(self) == Sub(Ok(self), "name")

\* DataItem(self.__data['data'][index])
DataGroup_getitem(self, index) ==
    LET r == Idx(Sub(Ok(self), "data"), index)
    IN  IF r.status = "ok" THEN Ok(DataItem_init(r.val)) ELSE r

\* len(self.__data): the size of the group's own dict
DataGroup_len(self) == Cardinality(Keys(self))

\* DataGroup(self.__data[index])
Data_getitem(index) ==
    LET r == Idx(Ok(view), index)
    IN  IF r.status = "ok" THEN Ok(DataGroup_init(r.val)) ELSE r

\* len(self.__data)
Data_len == Len(view.a)

\* a variant of Data_iter that hands out one shared cursor: a new traversal
\* goes on where a live one stands, to show that C8 rests on the fresh cursor
Data_iter_shared ==
    [over |-> "Data", src |-> -1,
     pos |-> IF \E it \in BagToSet(iters) : it.over = "Data"
             THEN (CHOOSE it \in BagToSet(iters) : it.over = "Data").pos
             ELSE 0,
     done |-> FALSE, yielded |-> <<>>]

\* map(lambda item: DataGroup(item), self.__data): a fresh cursor over the list
Data_iter ==
    [over |-> "Data", src |-> -1, pos |-> 0, done |-> FALSE, yielded |-> <<>>]

\* map(lambda item: DataItem(item), self.__data['data']), on the group data[g]
DataGroup_iter(g) ==
    [over |-> "DataGroup", src |-> g, pos |-> 0, done |-> FALSE, yielded |-> <<>>]

\* the list an iterator walks
iter_list(it) ==
    IF it.over = "Data" THEN view.a ELSE Sub(Data_getitem(it.src), "data").val.a

\* the lambda of the map object
iter_wrap(it, item) ==
    IF it.over = "Data" THEN DataGroup_init(item) ELSE DataItem_init(item)

\* a variant of map_next that stops one element short,
\* to show that C10 rests on the cursor
map_next_short(it) ==
    IF it.pos < Len(iter_list(it)) - 1
    THEN [it EXCEPT !.pos = @ + 1,
                    !.yielded = Append(@, iter_wrap(it, iter_list(it)[it.pos + 1]))]
    ELSE [it EXCEPT !.done = TRUE]

\* next(it): the wrapper of the element under the cursor, or StopIteration
map_next(it) ==
    IF it.pos < Len(iter_list(it))
    THEN [it EXCEPT !.pos = @ + 1,
                    !.yielded = Append(@, iter_wrap(it, iter_list(it)[it.pos + 1]))]
    ELSE [it EXCEPT !.done = TRUE]

----------------------------------------------------------------------------
(* The documents callers pass in. *)

Absent == NoDoc

\* the dict with the keys of r whose value is not Absent
ObjFrom(r) == JObj([k \in {q \in DOMAIN r : r[q] # Absent} |-> r[k]])

Opt(S) == S \cup {Absent}

IntLeaves == {JInt(i) : i \in 0..MaxInt} \cup {JStr("x")}
ExtraLeaves == {JInt(1)}

RowsValues ==
    {ObjFrom([height |-> h, spacing |-> sp, critical_value_size |-> c, extra |-> e]) :
        h \in Opt(IntLeaves), sp \in Opt(IntLeaves), c \in Opt(IntLeaves),
        e \in Opt(ExtraLeaves)}
    \cup {JInt(1)}

FontValues ==
    {ObjFrom([size |-> z, extra |-> e]) : z \in Opt(IntLeaves), e \in Opt(ExtraLeaves)}
    \cup {JArr(<<>>)}

ModeValues == {JStr("columns"), JStr("rows"), JStr("grid"), JInt(1)}

PropsDocs ==
    {ObjFrom([rows |-> r, font |-> f, mode |-> m, extra |-> e]) :
        r \in Opt(RowsValues), f \in Opt(FontValues), m \in Opt(ModeValues),
        e \in Opt(ExtraLeaves)}
    \cup {JArr(<<>>), JStr("x")}

MsgsDocs ==
    {ObjFrom([main_window_caption |-> c, extra |-> e]) :
        c \in Opt({JStr("Copy helper"), JStr(""), JInt(1)}), e \in Opt(ExtraLeaves)}
    \cup {JArr(<<>>), JNull}

GroupNames == {"g1", "g2"}
ItemPool == {ObjFrom([name |-> JStr("a"), value |-> JStr("1")]),
             ObjFrom([name |-> JStr("b"), value |-> JStr("2")])}

\* the sequences over S of exactly k elements
RECURSIVE SeqsOf(_, _)
SeqsOf(S, k) ==
    IF k = 0 THEN {<<>>} ELSE {Append(q, x) : q \in SeqsOf(S, k - 1), x \in S}

\* the non-empty sequences over S of at most m elements
SeqsUpTo(S, m) == UNION {SeqsOf(S, k) : k \in 1..m}

GroupsUpTo(m) ==
    {ObjFrom([name |-> JStr(g), data |-> JArr(q)]) :
        g \in GroupNames, q \in SeqsUpTo(ItemPool, m)}

RECURSIVE SumLen(_)
SumLen(gs) ==
    IF Len(gs) = 0 THEN 0 ELSE Len(gs[1].o["data"].a) + SumLen(Tail(gs))

\* the valid Data documents of at most MaxTotalItems items
ValidDataDocs ==
    UNION {{JArr(gs) : gs \in {q \in SeqsOf(GroupsUpTo(MaxTotalItems - k + 1), k) :
                                   SumLen(q) <= MaxTotalItems}} :
           k \in 1..MaxTotalItems}

\* the item `it` with one thing wrong
ItemFault(it, c) ==
    CASE c = "type"     -> JStr("x")
      [] c = "no_name"  -> ObjFrom([name |-> Absent, value |-> it.o["value"]])
      [] c = "no_value" -> ObjFrom([name |-> it.o["name"], value |-> Absent])
      [] c = "extra"    -> ObjFrom([name |-> it.o["name"], value |-> it.o["value"],
                                    extra |-> JInt(1)])
      [] c = "name_type"  -> ObjFrom([name |-> JInt(1), value |-> it.o["value"]])
      [] c = "value_type" -> ObjFrom([name |-> it.o["name"], value |-> JInt(1)])
      [] OTHER -> it

ItemFaultCodes == {"type", "no_name", "no_value", "extra", "name_type", "value_type"}

\* the group g with one thing wrong
GroupFault(g, c) ==
    CASE c = "type"    -> JStr("x")
      [] c = "no_name" -> ObjFrom([name |-> Absent, data |-> g.o["data"]])
      [] c = "no_data" -> ObjFrom([name |-> g.o["name"], data |-> Absent])
      [] c = "extra"   -> ObjFrom([name |-> g.o["name"], data |-> g.o["data"],
                                   extra |-> JInt(1)])
      [] c = "name_type"  -> ObjFrom([name |-> JInt(1), data |-> g.o["data"]])
      [] c = "data_type"  -> ObjFrom([name |-> g.o["name"], data |-> JObj(NoKeys)])
      [] c = "data_empty" -> ObjFrom([name |-> g.o["name"], data |-> JArr(<<>>)])
      [] OTHER -> g

GroupFaultCodes ==
    {"type", "no_name", "no_data", "extra", "name_type", "data_type", "data_empty"}

\* the document d with fault c put in group i (j = 0) or in item j of group i;
\* d itself when it has no such place
Faulty(d, i, j, c) ==
    IF i > Len(d.a) THEN d
    ELSE LET g == d.a[i]
             items == g.o["data"].a
         IN  IF j = 0
             THEN IF c \in GroupFaultCodes
                  THEN JArr([d.a EXCEPT ![i] = GroupFault(g, c)]) ELSE d
             ELSE IF j <= Len(items) /\ c \in ItemFaultCodes
                  THEN JArr([d.a EXCEPT ![i] =
                          ObjFrom([name |-> g.o["name"],
                                   data |-> JArr([items EXCEPT ![j] = ItemFault(items[j], c)])])])
                  ELSE d

\* the valid documents, and the valid documents with one thing wrong
DataDocs ==
    {JObj(NoKeys), JArr(<<>>)}
    \cup {Faulty(d, i, j, c) : d \in ValidDataDocs, i \in 1..MaxTotalItems,
                              j \in 0..MaxTotalItems,
                              c \in GroupFaultCodes \cup ItemFaultCodes}

\* the indexes callers subscript with
Indexes == 0..MaxTotalItems

----------------------------------------------------------------------------
(* The caller's session. *)

NoResult == [op |-> "none", i |-> 0, j |-> 0, status |-> "ok", val |-> NoDoc]

Returned(op, i, j, r) ==
    [op |-> op, i |-> i, j |-> j, status |-> r.status, val |-> r.val]

Init ==
    /\ pc = "start"
    /\ kind = "none"
    /\ given = NoDoc
    /\ arg = NoDoc
    /\ view = NoDoc
    /\ raised = NoError
    /\ result = NoResult
    /\ iters = EmptyBag

\* View(data): self.__x_data = _parse_json(data, schema)
Construct(k, doc) ==
    /\ pc = "start"
    /\ kind' = k
    /\ given' = doc
    /\ arg' = parse_json_arg(doc)
    /\ LET errors == parse_json_errors(doc, SchemaOf(k))
       IN  IF errors = {}
           THEN /\ pc' = "constructed"
                /\ view' = parse_json_return(doc)
                /\ raised' = NoError
           ELSE \E e \in best_match(errors) :
                /\ pc' = "failed"
                /\ view' = NoDoc
                /\ raised' = PropertiesError(e)
    /\ UNCHANGED <<result, iters>>

NewProperties == pc = "start" /\ \E doc \in PropsDocs : Construct("Properties", doc)
NewMessages == pc = "start" /\ \E doc \in MsgsDocs : Construct("Messages", doc)
NewData == pc = "start" /\ \E doc \in DataDocs : Construct("Data", doc)

\* an accessor call: it reads the View and hands a value (or an exception) back
Call(k, op, i, j, r) ==
    /\ pc = "constructed"
    /\ kind = k
    /\ result' = Returned(op, i, j, r)
    /\ UNCHANGED <<pc, kind, given, arg, view, raised, iters>>

GetRowHeight == Call("Properties", "row_height", 0, 0, row_height)
GetRowsSpacing == Call("Properties", "rows_spacing", 0, 0, rows_spacing)
GetCriticalValueSize ==
    Call("Properties", "critical_value_size", 0, 0, critical_value_size)
GetFontSize == Call("Properties", "font_size", 0, 0, font_size)
GetMode == Call("Properties", "mode", 0, 0, mode)
GetMainWindowCaption ==
    Call("Messages", "main_window_caption", 0, 0, main_window_caption)

\* len(data)
GetDataLen == Call("Data", "Data.__len__", 0, 0, Ok(JInt(Data_len)))

\* data[i]
GetGroup(i) == Call("Data", "Data.__getitem__", i, 0, Data_getitem(i))

\* the accessors of the group g = data[i]
OnGroup(i, op, j, r) ==
    /\ pc = "constructed" /\ kind = "Data"
    /\ Data_getitem(i).status = "ok"
    /\ Call("Data", op, i, j, r)

GetGroupName(i) == OnGroup(i, "DataGroup.name", 0, DataGroup_name(Data_getitem(i).val))
GetGroupLen(i) ==
    OnGroup(i, "DataGroup.__len__", 0, Ok(JInt(DataGroup_len(Data_getitem(i).val))))
GetItem(i, j) ==
    OnGroup(i, "DataGroup.__getitem__", j, DataGroup_getitem(Data_getitem(i).val, j))

\* the accessors of the item data[i][j]
OnItem(i, j, op, r) ==
    /\ pc = "constructed" /\ kind = "Data"
    /\ Data_getitem(i).status = "ok"
    /\ DataGroup_getitem(Data_getitem(i).val, j).status = "ok"
    /\ Call("Data", op, i, j, r)

GetItemName(i, j) ==
    OnItem(i, j, "DataItem.name",
           DataItem_name(DataGroup_getitem(Data_getitem(i).val, j).val))
GetItemValue(i, j) ==
    OnItem(i, j, "DataItem.value",
           DataItem_value(DataGroup_getitem(Data_getitem(i).val, j).val))

Next ==
    \/ NewProperties
    \/ NewMessages
    \/ NewData
    \/ GetRowHeight
    \/ GetRowsSpacing
    \/ GetCriticalValueSize
    \/ GetFontSize
    \/ GetMode
    \/ GetMainWindowCaption
    \/ GetDataLen
    \/ \E i \in Indexes : GetGroup(i)
    \/ \E i \in Indexes : GetGroupName(i)
    \/ \E i \in Indexes : GetGroupLen(i)
    \/ \E i \in Indexes : \E j \in Indexes : GetItem(i, j)
    \/ \E i \in Indexes : \E j \in Indexes : GetItemName(i, j)
    \/ \E i \in Indexes : \E j \in Indexes : GetItemValue(i, j)

Spec == Init /\ [][Next]_vars

----------------------------------------------------------------------------
(* Traversals of a Data and of its groups. *)

\* iter(data)
IterData ==
    /\ pc = "constructed" /\ kind = "Data"
    /\ BagCardinality(iters) < MaxIters
    /\ iters' = iters (+) SetToBag({Data_iter})
    /\ UNCHANGED <<pc, kind, given, arg, view, raised, result>>

\* iter(data[g])
IterGroup(g) ==
    /\ pc = "constructed" /\ kind = "Data"
    /\ BagCardinality(iters) < MaxIters
    /\ 0 <= g /\ g < Data_len
    /\ iters' = iters (+) SetToBag({DataGroup_iter(g)})
    /\ UNCHANGED <<pc, kind, given, arg, view, raised, result>>

\* next(it) on one of the live iterators
Advance ==
    \E it \in BagToSet(iters) :
        /\ ~it.done
        /\ iters' = (iters (-) SetToBag({it})) (+) SetToBag({map_next(it)})
        /\ UNCHANGED <<pc, kind, given, arg, view, raised, result>>

NextTraverse ==
    \/ NewData
    \/ IterData
    \/ \E g \in Indexes : IterGroup(g)
    \/ Advance

SpecTraverse == Init /\ [][NextTraverse]_vars

----------------------------------------------------------------------------
(* The data model of the three documents, written out rule by rule: what   *)
(* each document must look like, and where each departure from it lies.    *)
(* A violation is [rule, path, key].                                       *)

Violation(rule, path, key) == [rule |-> rule, path |-> path, key |-> key]

KeyRules(node, path, declared, required) ==
    {Violation("required", path, k) : k \in required \ Keys(node)}
    \cup {Violation("extra", path, k) : k \in Keys(node) \ declared}

PositiveInt(node, path) ==
    IF node.t # "integer" THEN {Violation("type", path, "")}
    ELSE IF node.n < 1 THEN {Violation("minimum", path, "")}
    ELSE {}

AString(node, path) ==
    IF node.t # "string" THEN {Violation("type", path, "")} ELSE {}

\* the violations of field k of the dict node, by rule set F, when it is there
Field(node, path, k, F(_, _)) ==
    IF k \in Keys(node) THEN F(node.o[k], Append(path, KeyStep(k))) ELSE {}

RowsRules(node, path) ==
    IF node.t # "object" THEN {Violation("type", path, "")}
    ELSE KeyRules(node, path, {"height", "spacing", "critical_value_size"},
                  {"height", "spacing"})
         \cup Field(node, path, "height", PositiveInt)
         \cup Field(node, path, "spacing", PositiveInt)
         \cup Field(node, path, "critical_value_size", PositiveInt)

FontRules(node, path) ==
    IF node.t # "object" THEN {Violation("type", path, "")}
    ELSE KeyRules(node, path, {"size"}, {"size"})
         \cup Field(node, path, "size", PositiveInt)

ModeRules(node, path) ==
    IF node.t # "string" THEN {Violation("type", path, "")}
    ELSE IF node.s \notin {"columns", "rows"} THEN {Violation("enum", path, "")}
    ELSE {}

PropertiesRules(node) ==
    IF node.t # "object" THEN {Violation("type", <<>>, "")}
    ELSE KeyRules(node, <<>>, {"rows", "font", "mode"}, {"rows", "font", "mode"})
         \cup Field(node, <<>>, "rows", RowsRules)
         \cup Field(node, <<>>, "font", FontRules)
         \cup Field(node, <<>>, "mode", ModeRules)

MessagesRules(node) ==
    IF node.t # "object" THEN {Violation("type", <<>>, "")}
    ELSE KeyRules(node, <<>>, {"main_window_caption"}, {"main_window_caption"})
         \cup Field(node, <<>>, "main_window_caption", AString)

ItemRules(node, path) ==
    IF node.t # "object" THEN {Violation("type", path, "")}
    ELSE KeyRules(node, path, {"name", "value"}, {"name", "value"})
         \cup Field(node, path, "name", AString)
         \cup Field(node, path, "value", AString)

ItemsRules(node, path) ==
    IF node.t # "array" THEN {Violation("type", path, "")}
    ELSE (IF Len(node.a) < 1 THEN {Violation("minItems", path, "")} ELSE {})
         \cup UNION {ItemRules(node.a[j], Append(path, IdxStep(j - 1))) :
                     j \in 1..Len(node.a)}

GroupRules(node, path) ==
    IF node.t # "object" THEN {Violation("type", path, "")}
    ELSE KeyRules(node, path, {"name", "data"}, {"name", "data"})
         \cup Field(node, path, "name", AString)
         \cup Field(node, path, "data", ItemsRules)

DataRules(node) ==
    IF node.t # "array" THEN {Violation("type", <<>>, "")}
    ELSE (IF Len(node.a) < 1 THEN {Violation("minItems", <<>>, "")} ELSE {})
         \cup UNION {GroupRules(node.a[i], <<IdxStep(i - 1)>>) : i \in 1..Len(node.a)}

Violations(k, node) ==
    CASE k = "Properties" -> PropertiesRules(node)
      [] k = "Messages"   -> MessagesRules(node)
      [] k = "Data"       -> DataRules(node)
      [] OTHER            -> {}

Conforms(k, node) == Violations(k, node) = {}

\* the node of the document at the end of a path (NoDoc when there is none)
RECURSIVE NodeAt(_, _)
NodeAt(node, path) ==
    IF path = <<>> THEN node
    ELSE LET step == Head(path)
         IN  IF step.str
             THEN IF step.s \in Keys(node) THEN NodeAt(node.o[step.s], Tail(path))
                  ELSE NoDoc
             ELSE IF node.t = "array" /\ step.n < Len(node.a)
                  THEN NodeAt(node.a[step.n + 1], Tail(path))
                  ELSE NoDoc

\* a path as the specification renders it: every step in brackets of its own,
\* a key in double quotes, an index bare, and [] for the empty path
RECURSIVE Bracketed(_)
Bracketed(path) ==
    IF path = <<>> THEN ""
    ELSE "[" \o (IF Head(path).str THEN "\"" \o Head(path).s \o "\""
                 ELSE ToString(Head(path).n)) \o "]"
         \o Bracketed(Tail(path))

RenderedPath(path) == IF path = <<>> THEN "[]" ELSE Bracketed(path)

Called == pc \in {"constructed", "failed"}

----------------------------------------------------------------------------
(* The claims. *)

\* C1: whenever the document does not conform, the constructor raises one
\* PropertiesError whose text is the violation message followed by the path
\* from the root to an existing node of the document, rendered step by step
\* in brackets (keys quoted, indexes bare, [] when empty).
C1_ErrorMessageCarriesPath ==
    (Called /\ ~Conforms(kind, given)) =>
        /\ pc = "failed"
        /\ raised.message # ""
        /\ raised.text = raised.message \o " (path: " \o RenderedPath(raised.path) \o ")"
        /\ NodeAt(given, raised.path) # NoDoc

C1_Witness ==
    /\ pc = "failed"
    /\ kind = "Data"
    /\ raised.text = "'value' is a required property (path: [2][\"data\"][0])"

\* C2: a document whose only departures from its schema are undeclared keys
\* (at whatever object level) is rejected, and no View is built for it.
C2_ClosedObjects ==
    (/\ Called
     /\ Violations(kind, given) # {}
     /\ \A v \in Violations(kind, given) : v.rule = "extra") =>
        /\ pc = "failed"
        /\ view = NoDoc
        /\ raised # NoError

C2_Witness ==
    /\ pc = "failed"
    /\ kind = "Data"
    /\ Violations(kind, given) =
          {Violation("extra", <<IdxStep(1), KeyStep("data"), IdxStep(0)>>, "extra")}

\* C3: a document that breaks exactly one rule is rejected, and the path of the
\* error is the place of that violation: the offending node for a type,
\* minimum, enum or min-items violation, the enclosing object for a missing
\* or an undeclared key.
C3_RejectionLocatesViolation ==
    (Called /\ Cardinality(Violations(kind, given)) = 1) =>
        /\ pc = "failed"
        /\ \A v \in Violations(kind, given) : raised.path = v.path

C3_Witness ==
    /\ pc = "failed"
    /\ kind = "Data"
    /\ Cardinality(Violations(kind, given)) = 1
    /\ Len(raised.path) > 1
    /\ raised.path[1] = IdxStep(2)

\* C4: len() of a DataGroup is the number of items of the group.
C4_GroupLenIsItemCount ==
    (result.op = "DataGroup.__len__") =>
        result.val.n = Len(given.a[result.i + 1].o["data"].a)

NamedAccessors ==
    {"row_height", "rows_spacing", "critical_value_size", "font_size", "mode",
     "main_window_caption", "DataGroup.name", "DataItem.name", "DataItem.value"}

\* C5: a named accessor of a constructed View returns a value; it never fails.
C5_AccessorsNeverFail ==
    (result.op \in NamedAccessors) => result.status = "ok"

\* C6: on success the View holds the very document that was passed in, and the
\* caller's document is as it was before the call.
C6_DocumentReturnedUnchanged ==
    (pc = "constructed") => (view = given /\ arg = given)

C6_Witness ==
    /\ pc = "constructed"
    /\ kind = "Properties"
    /\ "critical_value_size" \notin Keys(given.o["rows"])

\* the field of the input document an accessor call stands for
InputField(r) ==
    CASE r.op = "row_height"          -> given.o["rows"].o["height"]
      [] r.op = "rows_spacing"        -> given.o["rows"].o["spacing"]
      [] r.op = "font_size"           -> given.o["font"].o["size"]
      [] r.op = "mode"                -> given.o["mode"]
      [] r.op = "main_window_caption" -> given.o["main_window_caption"]
      [] r.op = "Data.__len__"        -> JInt(Len(given.a))
      [] r.op = "DataGroup.name"      -> given.a[r.i + 1].o["name"]
      [] r.op = "DataItem.name"  -> given.a[r.i + 1].o["data"].a[r.j + 1].o["name"]
      [] r.op = "DataItem.value" -> given.a[r.i + 1].o["data"].a[r.j + 1].o["value"]

RoundTripAccessors ==
    {"row_height", "rows_spacing", "font_size", "mode", "main_window_caption",
     "Data.__len__", "DataGroup.name", "DataItem.name", "DataItem.value"}

\* C7: every accessor of a constructed View returns exactly the field of the
\* input document it stands for.
C7_RoundTrip ==
    (result.op \in RoundTripAccessors) =>
        (result.status = "ok" /\ result.val = InputField(result))

C7_Witness ==
    /\ result.op = "DataItem.value"
    /\ result.i = 1
    /\ result.j = 1
    /\ result.val = JStr("2")
    /\ given.a[1].o["data"].a[1].o["value"] = JStr("1")

SameInstance(a, b) == a.over = b.over /\ a.src = b.src

Names(q) == [k \in 1..Len(q) |-> q[k].o["name"]]

Min(x, y) == IF x <= y THEN x ELSE y

\* C8: every traversal of an instance starts at its first element, and any two
\* traversals of the same instance, however far each has got, have yielded
\* the same names position by position; two complete ones yielded the same
\* sequence.
C8_RestartableTraversal ==
    \A a \in BagToSet(iters) :
        /\ (a.yielded # <<>> /\ a.over = "Data") => a.yielded[1] = given.a[1]
        /\ (a.yielded # <<>> /\ a.over = "DataGroup") =>
                a.yielded[1] = given.a[a.src + 1].o["data"].a[1]
        /\ \A b \in BagToSet(iters) :
              SameInstance(a, b) =>
                 /\ \A k \in 1..Min(Len(a.yielded), Len(b.yielded)) :
                        Names(a.yielded)[k] = Names(b.yielded)[k]
                 /\ (a.done /\ b.done) => Names(a.yielded) = Names(b.yielded)

C8_Witness ==
    \E a, b \in BagToSet(iters) :
        /\ a.over = "Data" /\ b.over = "Data"
        /\ a.done /\ Len(a.yielded) = 2
        /\ Names(a.yielded)[1] # Names(a.yielded)[2]
        /\ ~b.done /\ Len(b.yielded) = 1

\* a traversal run to its end
RECURSIVE Drain(_)
Drain(it) == IF it.done THEN it ELSE Drain(map_next(it))

\* C9: a constructor call either raises and leaves no View, or returns a View
\* whose document conforms to the whole schema; and every DataGroup and
\* DataItem reached by indexing or by iterating wraps a conforming fragment.
C9_NoPartialSuccess ==
    /\ pc \in {"start", "constructed", "failed"}
    /\ (pc = "start") => (view = NoDoc /\ raised = NoError)
    /\ (pc = "failed") => (view = NoDoc /\ raised # NoError)
    /\ (pc = "constructed") => (raised = NoError /\ view # NoDoc /\ Conforms(kind, view))
    /\ (result.op = "Data.__getitem__" /\ result.status = "ok") =>
            GroupRules(result.val, <<>>) = {}
    /\ (result.op = "DataGroup.__getitem__" /\ result.status = "ok") =>
            ItemRules(result.val, <<>>) = {}
    /\ (pc = "constructed" /\ kind = "Data") =>
            /\ \A g \in Range(Drain(Data_iter).yielded) : GroupRules(g, <<>>) = {}
            /\ \A i \in 0..(Data_len - 1) :
                  \A x \in Range(Drain(DataGroup_iter(i)).yielded) :
                      ItemRules(x, <<>>) = {}

C9_Witness ==
    /\ pc = "constructed"
    /\ result.op = "DataGroup.__getitem__"
    /\ result.status = "ok"
    /\ result.i = 2

\* the length of the sequence an iterator walks, and the element indexing gives
Walked(it) ==
    IF it.over = "Data" THEN Data_len
    ELSE Len(Data_getitem(it.src).val.o["data"].a)

Indexed(it, k) ==
    IF it.over = "Data" THEN Data_getitem(k).val
    ELSE DataGroup_getitem(Data_getitem(it.src).val, k).val

\* C10: a traversal yields the elements in document order, the k-th being the
\* one indexing gives for k, never more than the length, and it has yielded
\* exactly that many when it ends.
C10_TraversalAgreesWithIndexing ==
    \A it \in BagToSet(iters) :
        /\ Len(it.yielded) <= Walked(it)
        /\ it.done => Len(it.yielded) = Walked(it)
        /\ \A k \in 1..Len(it.yielded) : it.yielded[k] = Indexed(it, k - 1)

C10_Witness ==
    \E a, b \in BagToSet(iters) :
        /\ a.over = "Data" /\ a.done /\ Len(a.yielded) = 2
        /\ a.yielded[1] # a.yielded[2]
        /\ b.over = "DataGroup" /\ b.done /\ Len(b.yielded) = 2
        /\ b.yielded[1] # b.yielded[2]

====
